---- MODULE Spec2Model ----
(***************************************************************************)
(* Model of src/DeviceMap.tsx: the DeviceMap component renders one Leaflet *)
(* marker per device, three child markers for every non-basic device, and  *)
(* attaches the drag-end and double-click handlers.                        *)
(*                                                                         *)
(* Coordinates are fixed-point integers in units of 1e-7 degree, so that   *)
(* Number.prototype.toFixed(6) is a real rounding and not the identity.    *)
(***************************************************************************)
EXTENDS Integers, Sequences, FiniteSets

VARIABLES devices, map, markers, console, mounted

vars == <<devices, map, markers, console, mounted>>

(* ---------------- bounds of the model ---------------- *)
MaxDevices == 2
MaxLog == 2

(* ---------------- program constants ---------------- *)
dLat == 7000
dLon == 10000
IconSize == 28
ChildSize == 14
InitZoom == 12
DblClickZoom == 15
DefaultLat == 515050000
DefaultLon == -900000
MinZoom == 0
MaxZoom == 18

Undefined == "undefined"

Abs(x) == IF x < 0 THEN -x ELSE x
Max(a, b) == IF a >= b THEN a ELSE b

LatLng(lat, lon) == [lat |-> lat, lon |-> lon]

(* IDevice records the component can be given (ids are unique). *)
DevicePool ==
  { [id |-> "d1", name |-> "Alpha", lat |-> 557558000, lon |-> 376173000,
     model |-> "basic", status |-> "on"],
    [id |-> "d2", name |-> "Beta", lat |-> 557600000, lon |-> 376200000,
     model |-> "advanced", status |-> "off"],
    [id |-> "d3", name |-> "Gamma", lat |-> 557500000, lon |-> 376100000,
     model |-> "special", status |-> "on"],
    [id |-> "d4", name |-> "Beta", lat |-> 557600000, lon |-> 376200000,
     model |-> "advanced", status |-> "on"],
    [id |-> "d5", name |-> "Epsilon", lat |-> -338688000, lon |-> -4,
     model |-> "special", status |-> "off"] }

DeviceLists ==
  UNION { { s \in [1..n -> DevicePool] :
              \A i, j \in 1..n : i # j => s[i].id # s[j].id } : n \in 0..MaxDevices }

(* Places where the user can drop the dragged marker. *)
DropPoints ==
  { LatLng(557600005, -4), LatLng(-338688015, 376173004), LatLng(557558000, 376173000) }

(* Number.prototype.toFixed(6): sign, then the magnitude rounded half up to 1e-6 *)
toFixed6(x) == [neg |-> x < 0, micro |-> (Abs(x) + 5) \div 10]

makeModelIcon(model, color, size, isDraggable) ==
  LET s == size
      pad == 2
      half == s \div 2
      shape ==
        IF model = "basic"
        THEN [tag |-> "circle", cx |-> half, cy |-> half, r |-> half - pad,
              fill |-> color, stroke |-> "#0f172a"]
        ELSE IF model = "advanced"
        THEN [tag |-> "rect", x |-> pad, y |-> pad, width |-> s - pad * 2,
              height |-> s - pad * 2, rx |-> 6, ry |-> 6,
              fill |-> color, stroke |-> "#0f172a"]
        ELSE [tag |-> "polygon",
              points |-> << <<half, pad>>, <<s - pad, half>>,
                            <<half, s - pad>>, <<pad, half>> >>,
              fill |-> color, stroke |-> "#0f172a"]
  IN [className |-> "device-icon",
      wrapClass |-> IF isDraggable THEN "device-icon-wrap is-draggable"
                                   ELSE "device-icon-wrap",
      shape |-> shape,
      ring |-> isDraggable,
      iconSize |-> <<s, s>>,
      iconAnchor |-> <<s \div 2, s \div 2>>]

palette(model) ==
  CASE model = "basic" -> "#60a5fa"
    [] model = "advanced" -> "#34d399"
    [] model = "special" -> "#f472b6"

(* mutant: the palette entry of 'special' repeats the one of 'advanced' *)
iconFor_PaletteSlip(model, isDraggable) ==
  makeModelIcon(model, IF model = "basic" THEN "#60a5fa" ELSE "#34d399",
                IconSize, isDraggable)

iconFor(model, isDraggable) ==
  makeModelIcon(model, palette(model), IconSize, isDraggable)

CHILD_ICON ==
  LET size == ChildSize
      pad == 2
      half == size \div 2
  IN [className |-> "device-icon",
      shape |-> [tag |-> "circle", cx |-> half, cy |-> half, r |-> half - pad,
                 fill |-> "#94a3b8", stroke |-> "#334155"],
      iconSize |-> <<size, size>>,
      iconAnchor |-> <<size \div 2, size \div 2>>]

StatusChip(status) ==
  [text |-> IF status = "on" THEN "ON" ELSE "OFF",
   background |-> IF status = "on" THEN "#dcfce7" ELSE "#fee2e2",
   color |-> IF status = "on" THEN "#166534" ELSE "#991b1b",
   border |-> IF status = "on" THEN "#86efac" ELSE "#fecaca"]

(* mutant: child markers only for 'special' devices *)
ChildPositions_SpecialOnly(device) ==
  IF device.model # "special" THEN << >>
  ELSE << LatLng(device.lat + dLat, device.lon + dLon),
          LatLng(device.lat - dLat, device.lon - dLon),
          LatLng(device.lat + dLat, device.lon - dLon) >>

(* mutant: the third offset repeats the first one *)
ChildPositions_RepeatedOffset(device) ==
  IF device.model = "basic" THEN << >>
  ELSE << LatLng(device.lat + dLat, device.lon + dLon),
          LatLng(device.lat - dLat, device.lon - dLon),
          LatLng(device.lat + dLat, device.lon + dLon) >>

(* the useMemo of ChildMarkers *)
ChildPositions(device) ==
  IF device.model = "basic" THEN << >>
  ELSE << LatLng(device.lat + dLat, device.lon + dLon),
          LatLng(device.lat - dLat, device.lon - dLon),
          LatLng(device.lat + dLat, device.lon - dLon) >>

(* Marker options left at Leaflet's default are draggable = FALSE *)
ChildMarkers(device) ==
  LET positions == ChildPositions(device)
  IN [i \in 1..Len(positions) |->
        [key |-> <<device.id, "child", i - 1>>,
         pos |-> positions[i],
         icon |-> CHILD_ICON,
         draggable |-> FALSE]]

Popup(device) ==
  [name |-> device.name, model |-> device.model, status |-> StatusChip(device.status)]

(* mutant: every marker is rendered draggable *)
isDraggable_Always(device, draggableId) == TRUE

isDraggable(device, draggableId) == device.id = draggableId

(* mutant: lat and lon are swapped in the position prop *)
MarkerPosition_Swapped(device) == LatLng(device.lon, device.lat)

MarkerPosition(device) == LatLng(device.lat, device.lon)

DeviceMarker(device, draggableId) ==
  [id |-> device.id,
   pos |-> MarkerPosition(device),
   icon |-> iconFor(device.model, isDraggable(device, draggableId)),
   draggable |-> isDraggable(device, draggableId),
   title |-> IF isDraggable(device, draggableId) THEN "Drag me" ELSE device.name,
   popup |-> Popup(device),
   children |-> ChildMarkers(device)]

center(devs) ==
  LatLng(IF Len(devs) > 0 THEN devs[1].lat ELSE DefaultLat,
         IF Len(devs) > 0 THEN devs[1].lon ELSE DefaultLon)

draggableId(devs) == IF Len(devs) > 0 THEN devs[1].id ELSE Undefined

(* DeviceMap is called with a device list: the MapContainer is created with *)
(* its center and zoom; no marker layer has been added yet.                 *)
Init ==
  /\ devices \in DeviceLists
  /\ map = [center |-> center(devices), zoom |-> InitZoom]
  /\ markers = << >>
  /\ console = << >>
  /\ mounted = FALSE

(* devices.map(d => <DeviceMarker .../>): the marker layers are added *)
Render ==
  /\ ~mounted
  /\ mounted' = TRUE
  /\ markers' = [i \in 1..Len(devices) |-> DeviceMarker(devices[i], draggableId(devices))]
  /\ UNCHANGED <<devices, map, console>>

LogEntry(name, pos) ==
  [tag |-> "[dragend]", name |-> name, lat |-> toFixed6(pos.lat), lon |-> toFixed6(pos.lng)]

(* mutant: the handler writes the drop position back into the device record *)
onDragEnd_Persist(i, p) ==
  /\ mounted
  /\ i \in DOMAIN markers
  /\ markers[i].draggable
  /\ Len(console) < MaxLog
  /\ markers' = [markers EXCEPT ![i].pos = p]
  /\ console' = Append(console, LogEntry(devices[i].name, [lat |-> p.lat, lng |-> p.lon]))
  /\ devices' = [devices EXCEPT ![i].lat = p.lat, ![i].lon = p.lon]
  /\ UNCHANGED <<map, mounted>>

(* mutant: the handler logs the device's lat/lon instead of m.getLatLng() *)
onDragEnd_LogsDevice(i, p) ==
  /\ mounted
  /\ i \in DOMAIN markers
  /\ markers[i].draggable
  /\ Len(console) < MaxLog
  /\ markers' = [markers EXCEPT ![i].pos = p]
  /\ console' = Append(console,
                       LogEntry(devices[i].name, [lat |-> devices[i].lat, lng |-> devices[i].lon]))
  /\ UNCHANGED <<devices, map, mounted>>

(* The user drags marker i and drops it at p: Leaflet moves the marker    *)
(* (only a marker with draggable = TRUE can be dragged) and fires dragend, *)
(* whose handler reads m.getLatLng() and writes one console line.          *)
onDragEnd(i, p) ==
  /\ mounted
  /\ i \in DOMAIN markers
  /\ markers[i].draggable
  /\ Len(console) < MaxLog
  /\ markers' = [markers EXCEPT ![i].pos = p]
  /\ LET pos == [lat |-> markers'[i].pos.lat, lng |-> markers'[i].pos.lon]
     IN console' = Append(console, LogEntry(devices[i].name, pos))
  /\ UNCHANGED <<devices, map, mounted>>

(* mutant: the zoom is set to 15 without Math.max *)
onDblClick_NoMax(i) ==
  /\ mounted
  /\ i \in DOMAIN markers
  /\ map' = [center |-> markers[i].pos, zoom |-> DblClickZoom]
  /\ UNCHANGED <<devices, markers, console, mounted>>

(* Double-click on device marker i: Leaflet gives a marker event the      *)
(* marker's own latlng; the handler calls map.setView(e.latlng, max(..)). *)
onDblClick(i) ==
  /\ mounted
  /\ i \in DOMAIN markers
  /\ LET latlng == markers[i].pos
     IN map' = [center |-> latlng, zoom |-> Max(map.zoom, DblClickZoom)]
  /\ UNCHANGED <<devices, markers, console, mounted>>

(* The zoom control of the MapContainer (left at its defaults): +/- one level *)
ZoomControl(d) ==
  /\ map.zoom + d >= MinZoom
  /\ map.zoom + d <= MaxZoom
  /\ map' = [map EXCEPT !.zoom = map.zoom + d]
  /\ UNCHANGED <<devices, markers, console, mounted>>

DragEnd == \E i \in 1..MaxDevices + 1 : \E p \in DropPoints : onDragEnd(i, p)
DblClick == \E i \in 1..MaxDevices + 1 : onDblClick(i)
Zoom == \E d \in {-1, 1} : ZoomControl(d)

Next == Render \/ DragEnd \/ DblClick \/ Zoom

Spec == Init /\ [][Next]_vars

(* ======================= properties ======================= *)

DevicePos(i) == LatLng(devices[i].lat, devices[i].lon)
Dragged(i) == markers[i].draggable /\ console # << >>
Offsets(p) ==
  << LatLng(p.lat + dLat, p.lon + dLon),
     LatLng(p.lat - dLat, p.lon - dLon),
     LatLng(p.lat + dLat, p.lon - dLon) >>
MarkerIds(ms) == [i \in DOMAIN ms |-> ms[i].id]
SameMarkerSet ==
  /\ Len(markers) = Len(devices)
  /\ \A i \in DOMAIN markers : markers[i].id = devices[i].id

(* C1, as stated: in every state after rendering there is one device     *)
(* marker per device, with the device's id, placed at the device's       *)
(* lat/lon.                                                              *)
C1_MarkersAtDevicePositions ==
  mounted =>
    /\ SameMarkerSet
    /\ \A i \in DOMAIN markers : markers[i].pos = DevicePos(i)

(* C1, amended: one device marker per device with the device's id in     *)
(* every state, and the sequence of marker ids never changes; a marker   *)
(* that has not been dragged is at its device's lat/lon.                 *)
C1_OneMarkerPerDevice ==
  /\ [](mounted =>
          /\ SameMarkerSet
          /\ \A i \in DOMAIN markers : ~Dragged(i) => markers[i].pos = DevicePos(i))
  /\ [][mounted => MarkerIds(markers') = MarkerIds(markers)]_vars

C1_Witness ==
  /\ mounted
  /\ Len(markers) = 2
  /\ console # << >>
  /\ markers[1].pos # DevicePos(1)
  /\ map.zoom = DblClickZoom
  /\ map.center = markers[2].pos

(* C2: a device has three child markers when its model is advanced or    *)
(* special and none when it is basic; the map has 3 child markers per    *)
(* non-basic device in total.                                            *)
C2_ThreeChildrenUnlessBasic ==
  mounted =>
    /\ \A i \in DOMAIN markers :
         Len(markers[i].children) =
           IF devices[i].model \in {"advanced", "special"} THEN 3 ELSE 0
    /\ Cardinality({ ik \in (DOMAIN markers) \X (1..3) :
                       ik[2] \in DOMAIN markers[ik[1]].children })
         = 3 * Cardinality({ i \in DOMAIN devices : devices[i].model # "basic" })

C2_Witness ==
  /\ mounted
  /\ Len(markers) = 2
  /\ devices[1].model = "advanced"
  /\ devices[2].model = "basic"
  /\ Len(markers[1].children) = 3
  /\ Len(markers[2].children) = 0
  /\ console # << >>

DraggableDeviceMarkers == { i \in DOMAIN markers : markers[i].draggable }
DraggableChildMarkers ==
  { ik \in (DOMAIN markers) \X (1..3) :
      /\ ik[2] \in DOMAIN markers[ik[1]].children
      /\ markers[ik[1]].children[ik[2]].draggable }

(* C3, as stated: for every device list exactly one marker is draggable. *)
C3_ExactlyOneDraggable ==
  mounted =>
    /\ Cardinality(DraggableDeviceMarkers) = 1
    /\ DraggableChildMarkers = {}

(* C3, amended: for a non-empty device list the draggable markers are    *)
(* exactly the device marker of the first device; for the empty list no  *)
(* marker is draggable; no child marker is ever draggable.               *)
C3_FirstMarkerDraggable ==
  mounted =>
    /\ DraggableDeviceMarkers = (IF Len(devices) > 0 THEN {1} ELSE {})
    /\ DraggableChildMarkers = {}

C3_Witness ==
  /\ mounted
  /\ Len(markers) = 2
  /\ markers[1].draggable
  /\ ~markers[2].draggable
  /\ markers[1].children # << >>
  /\ markers[2].children # << >>
  /\ Len(console) = MaxLog

(* C4: no step changes the device list; a step that moves a marker or    *)
(* writes the log changes the position of one draggable marker only:     *)
(* every other field of every marker (id, icon, popup, children) and     *)
(* every other marker's position stay, and so does the map view.         *)
C4_DragMovesOnlyTheMarker ==
  [][ /\ devices' = devices
      /\ mounted =>
           /\ Len(markers') = Len(markers)
           /\ \A i \in DOMAIN markers :
                /\ markers'[i] = [markers[i] EXCEPT !.pos = markers'[i].pos]
                /\ markers'[i].pos # markers[i].pos =>
                     /\ markers[i].draggable
                     /\ \A j \in DOMAIN markers : j # i => markers'[j] = markers[j]
           /\ (markers' # markers \/ console' # console) => map' = map
    ]_vars

C4_Witness ==
  /\ mounted
  /\ Len(devices) = 2
  /\ Len(console) = 1
  /\ markers[1].pos # DevicePos(1)
  /\ markers[1].popup.name = devices[1].name
  /\ markers[2].pos = DevicePos(2)
  /\ map.zoom = InitZoom

C6_DragEndLogsNewPosition ==
  [][ LET Logged ==
            \E i \in DOMAIN markers :
              /\ markers[i].draggable
              /\ console' = Append(console,
                                   [tag |-> "[dragend]",
                                    name |-> devices[i].name,
                                    lat |-> toFixed6(markers'[i].pos.lat),
                                    lon |-> toFixed6(markers'[i].pos.lon)])
      IN /\ (mounted /\ markers' # markers) => Logged
         /\ console' # console => (mounted /\ Logged /\ map' = map)
    ]_vars

C6_Witness ==
  /\ mounted
  /\ Len(console) = 2
  /\ markers[1].pos = LatLng(557600005, -4)
  /\ console[2].name = devices[1].name
  /\ console[2].lat = [neg |-> FALSE, micro |-> 55760001]
  /\ console[2].lon = [neg |-> TRUE, micro |-> 0]
  /\ console[2].lat # toFixed6(devices[1].lat)

ExpectedShape(model, shape) ==
  CASE model = "basic" ->
         shape.tag = "circle" /\ shape.fill = "#60a5fa"
    [] model = "advanced" ->
         shape.tag = "rect" /\ shape.rx > 0 /\ shape.ry > 0 /\ shape.fill = "#34d399"
    [] model = "special" ->
         /\ shape.tag = "polygon"
         /\ shape.fill = "#f472b6"
         /\ Len(shape.points) = 4
         /\ shape.points[1][1] = shape.points[3][1]
         /\ shape.points[2][2] = shape.points[4][2]
         /\ shape.points[1][2] < shape.points[2][2]
         /\ shape.points[2][2] < shape.points[3][2]
         /\ shape.points[4][1] < shape.points[1][1]
         /\ shape.points[1][1] < shape.points[2][1]

ChildrenOffsetFrom(i, p) ==
  LET ch == markers[i].children
  IN devices[i].model # "basic" =>
       /\ Len(ch) = 3
       /\ \A k \in 1..3 : ch[k].pos = Offsets(p)[k]
       /\ \A k, l \in 1..3 : k # l => ch[k].pos # ch[l].pos
       /\ \A k \in 1..3 : ch[k].pos # p

(* C8, as stated: in every state the three children of a non-basic       *)
(* device sit at the three offsets from the parent device marker's       *)
(* position, pairwise distinct and distinct from it.                     *)
C8_ChildrenFollowParentMarker ==
  mounted => \A i \in DOMAIN markers : ChildrenOffsetFrom(i, markers[i].pos)

(* C8, amended: in every state the three children of a non-basic device  *)
(* sit at the three offsets from the device's lat/lon, pairwise distinct *)
(* and distinct from it; they are at these offsets from the parent       *)
(* marker's position as long as the parent marker has not been dragged.  *)
C8_ChildrenOffsetFromDevice ==
  mounted =>
    \A i \in DOMAIN markers :
      /\ ChildrenOffsetFrom(i, DevicePos(i))
      /\ ~Dragged(i) => ChildrenOffsetFrom(i, markers[i].pos)

C8_Witness ==
  /\ mounted
  /\ Len(markers) = 2
  /\ devices[1].model # "basic"
  /\ devices[2].model # "basic"
  /\ markers[1].pos # DevicePos(1)
  /\ markers[1].children[1].pos = Offsets(DevicePos(1))[1]
  /\ console # << >>
====
